---- MODULE Spec2Model ----
(***************************************************************************)
(* The persistence layer of the sn0int registry                            *)
(* (sn0int-registry/src/models.rs): the auth_tokens, modules and releases  *)
(* tables and the functions of AuthToken, Module and Release that read and *)
(* write them.  Every diesel statement is one atomic step of the store;    *)
(* a function that issues two statements (Module::update_or_create,        *)
(* Module::add_version) is two steps of the caller that runs it, and other *)
(* callers' statements may fall between them.  Callers are told apart only *)
(* by where they stand: in_flight is the bag of the calls between their    *)
(* two statements.                                                         *)
(***************************************************************************)
EXTENDS Integers, Sequences, FiniteSets, Bags, TLC

(* ------------------------------ bounds -------------------------------- *)
\* Two-statement calls in flight at a time: in Spec, and in SpecPublish.
MaxInFlight == 1
MaxPublishers == 2
MaxModuleId == 1
MaxReleaseId == 2
MaxDownloads == 2
NumTokenIds == 2
NumSecrets == 2
NumSearchModules == 2
MaxSearchReleases == 2
MaxSearchDownloads == 1

(* --------------------------- value universes -------------------------- *)
\* Option<T>: None is the empty sequence, Some(x) the sequence <<x>>.
None == <<>>
Some(x) == <<x>>

\* A text is a sequence of words.
KeyTable ==
  << [author |-> "alice", name |-> <<"gallery">>],
     [author |-> "bob", name |-> <<"exif">>],
     [author |-> "alice", name |-> <<"exif">>],
     [author |-> "bob", name |-> <<"gallery">>] >>
DescriptionTable ==
  << <<"Photo", "gallery">>, <<"photos">>, <<"Gallery", "viewer">>, <<"viewer">> >>
VersionTable == << "1.0.0", "1.0.1", "2.0.0", "2.0.1" >>

Min(a, b) == IF a < b THEN a ELSE b
Keys == {KeyTable[1]}
Descriptions == {DescriptionTable[1], DescriptionTable[2]}
Versions == {VersionTable[1], VersionTable[2]}
Codes == {"code"}
TokenIdTable == << "token-a", "token-b", "token-c" >>
SecretTable == << "s3cret", "hunter2", "letmein" >>
TokenIds == {TokenIdTable[i] : i \in 1..Min(NumTokenIds, Len(TokenIdTable))}
Secrets == {SecretTable[i] : i \in 1..Min(NumSecrets, Len(SecretTable))}
AuthTokenValues == [id : TokenIds, author : {"alice", "bob"}, access_token : Secrets]
Queries == { <<"photo", "gallery">>, <<"Photos">>, <<"exif">>, <<"viewer">> }

VARIABLES
  auth_tokens,      \* the auth_tokens table: a set of AuthToken rows
  modules,          \* the modules table: a set of Module rows
  releases,         \* the releases table: a set of Release rows
  modules_id_seq,   \* last value of the serial behind modules.id
  releases_id_seq,  \* last value of the serial behind releases.id
  in_flight,        \* the bag of calls that have run their first statement, not yet their second
  last,             \* the call that returned most recently and its Result
  bump_calls,       \* bump_calls[id]: the bump_downloads calls made so far on existing release id
  search_input,     \* the query handed to the most recent Module::search
  search_output     \* what that Module::search returned

vars == << auth_tokens, modules, releases, modules_id_seq, releases_id_seq,
           in_flight, last, bump_calls, search_input, search_output >>
store_vars == << modules, releases, modules_id_seq, releases_id_seq, in_flight, bump_calls >>
search_vars == << search_input, search_output >>

\* Fewer than limit calls are in flight: one more caller may start one.
CallerFree(limit) == BagCardinality(in_flight) < limit
Enter(f) == in_flight (+) SetToBag({f})
Leave(f) == in_flight (-) SetToBag({f})
InFlight == BagToSet(in_flight)
Returned(op, out) == [op |-> op, out |-> out]
ReturnedValue(op, out, value) == [op |-> op, out |-> out, value |-> value]

(* ------------------------------ the store ----------------------------- *)
\* modules has a unique index on (author, name); modules.id is its primary key.
ModuleKeyTaken(mods, author, name) ==
  \E m \in mods : m.author = author /\ m.name = name

\* releases has a unique index on (module_id, version).
ReleaseKeyTaken(rels, module_id, version) ==
  \E r \in rels : r.module_id = module_id /\ r.version = version

\* releases.module_id references modules.id.
ModuleRowExists(mods, id) == \E m \in mods : m.id = id

(* ------------------------------ AuthToken ----------------------------- *)
\* A variant that overwrites the row of an id that is there (an upsert).
AuthTokenUpsert(tokens, auth_token) ==
  [out |-> "Ok",
   auth_tokens |-> {t \in tokens : t.id # auth_token.id} \cup {auth_token}]

\* The INSERT of AuthToken::create; auth_tokens.id is the primary key.
AuthTokenInsert(tokens, auth_token) ==
  IF \E t \in tokens : t.id = auth_token.id
    THEN [out |-> "UniqueViolation", auth_tokens |-> tokens]
    ELSE [out |-> "Ok", auth_tokens |-> tokens \cup {auth_token}]

\* auth_tokens::table.find(id).first(): the row, or diesel's NotFound.
AuthTokenFirst(tokens, id) ==
  IF \E t \in tokens : t.id = id
    THEN [out |-> "Ok", value |-> Some(CHOOSE t \in tokens : t.id = id)]
    ELSE [out |-> "NotFound", value |-> None]

\* AuthToken::read: first(), the error mapped.
AuthTokenReadResult(tokens, id) == AuthTokenFirst(tokens, id)

\* AuthToken::read_opt: first().optional() turns NotFound into Ok(None).
AuthTokenReadOptResult(tokens, id) ==
  LET r == AuthTokenFirst(tokens, id)
  IN  IF r.out = "NotFound" THEN [out |-> "Ok", value |-> None] ELSE r

\* The DELETE of AuthToken::delete.
AuthTokenDeleteRows(tokens, id) == {t \in tokens : t.id # id}

(* ------------------------------- Module ------------------------------- *)
\* Module::find_opt: the row with this (author, name), if any.
ModuleFindOpt(mods, author, name) ==
  IF ModuleKeyTaken(mods, author, name)
    THEN Some(CHOOSE m \in mods : m.author = author /\ m.name = name)
    ELSE None

\* Module::create: INSERT ... RETURNING; the store assigns id, featured defaults to false.
ModuleCreate(mods, seq, new_module) ==
  IF ModuleKeyTaken(mods, new_module.author, new_module.name)
    THEN [out |-> "UniqueViolation", modules |-> mods, seq |-> seq]
    ELSE [out |-> "Ok",
          modules |-> mods \cup {[id |-> seq + 1,
                                  author |-> new_module.author,
                                  name |-> new_module.name,
                                  description |-> new_module.description,
                                  latest |-> new_module.latest,
                                  featured |-> FALSE]},
          seq |-> seq + 1]

\* A variant that writes the whole changeset of a NewModule (latest: None) over the row.
ModuleSetDescriptionAndLatest(mods, id, description) ==
  IF ModuleRowExists(mods, id)
    THEN [out |-> "Ok",
          modules |-> {IF m.id = id
                         THEN [m EXCEPT !.description = description, !.latest = None]
                         ELSE m : m \in mods}]
    ELSE [out |-> "NotFound", modules |-> mods]

\* The UPDATE of Module::update_or_create: SET description WHERE id = module.id, RETURNING.
ModuleSetDescription(mods, id, description) ==
  IF ModuleRowExists(mods, id)
    THEN [out |-> "Ok",
          modules |-> {IF m.id = id THEN [m EXCEPT !.description = description] ELSE m : m \in mods}]
    ELSE [out |-> "NotFound", modules |-> mods]

\* The UPDATE of Module::add_version: SET latest = version WHERE id = self.id.
ModuleSetLatest(mods, id, version) ==
  {IF m.id = id THEN [m EXCEPT !.latest = Some(version)] ELSE m : m \in mods}

\* What the schema lets a DELETE of a module row do to the releases that reference it:
\* refuse the statement, or delete them with it.
OnDeleteModule == {"NoAction", "Cascade"}

\* Module::delete: DELETE WHERE id = id; Ok(()) whatever the number of rows deleted.
ModuleDeleteRow(mods, rels, id, on_delete) ==
  IF (\E r \in rels : r.module_id = id) /\ on_delete = "NoAction"
    THEN [out |-> "ForeignKeyViolation", modules |-> mods, releases |-> rels]
    ELSE [out |-> "Ok",
          modules |-> {m \in mods : m.id # id},
          releases |-> {r \in rels : r.module_id # id}]

\* The lexeme the store's text search configuration reduces a word to: lower case,
\* stemmed.
Lexeme(word) ==
  CASE word \in {"Photo", "photo", "Photos", "photos"} -> "photo"
    [] word \in {"Gallery", "gallery", "galleries"} -> "galleri"
    [] word \in {"Viewer", "viewer", "viewers"} -> "viewer"
    [] OTHER -> word

ToTsVector(text) == {Lexeme(text[i]) : i \in 1..Len(text)}

\* modules.search_vector: kept by the store from name and description.
SearchVector(m) == ToTsVector(m.name) \cup ToTsVector(m.description)

\* plainto_tsquery(query): the lexemes of the words of the query, all required.
PlainToTsQuery(query) == ToTsVector(query)

\* q.matches(modules::search_vector).
TsMatches(q, vector) == q # {} /\ q \subseteq vector

RECURSIVE SumDownloads(_)
\* sum(releases.downloads) over a group's release rows.
SumDownloads(rels) ==
  IF rels = {} THEN 0
  ELSE LET r == CHOOSE x \in rels : TRUE IN r.downloads + SumDownloads(rels \ {r})

\* The rows of the query of Module::search: modules LEFT JOIN releases, grouped by
\* modules.id, filtered by the match; the sum of a group with no release row is NULL.
SearchRows(mods, rels, query) ==
  {[module |-> m,
    sum |-> LET g == {r \in rels : r.module_id = m.id}
            IN  IF g = {} THEN None ELSE Some(SumDownloads(g))] :
     m \in {x \in mods : TsMatches(PlainToTsQuery(query), SearchVector(x))}}

\* A variant that orders by the sum alone.
SearchOrderedBeforeBySum(a, b) ==
  \/ a.sum = None /\ b.sum # None
  \/ a.sum # None /\ b.sum # None /\ a.sum[1] > b.sum[1]

\* ORDER BY featured DESC, sum DESC: row a has to come before row b.  DESC puts
\* true before false, and NULL before every number.
SearchOrderedBefore(a, b) ==
  \/ a.module.featured /\ ~b.module.featured
  \/ /\ a.module.featured = b.module.featured
     /\ \/ a.sum = None /\ b.sum # None
        \/ a.sum # None /\ b.sum # None /\ a.sum[1] > b.sum[1]

\* The orders the store may return the rows in: rows that tie come in any order.
SearchOrderings(rows) ==
  {s \in [1..Cardinality(rows) -> rows] :
     /\ \A i, j \in 1..Cardinality(rows) : i # j => s[i] # s[j]
     /\ \A i, j \in 1..Cardinality(rows) : i < j => ~SearchOrderedBefore(s[j], s[i])}

\* .load() into Vec<(.., i64)> and the map to (Module, i64): a NULL in the BigInt
\* column fails the whole load.
SearchLoad(s) ==
  IF \E i \in 1..Len(s) : s[i].sum = None
    THEN [out |-> "DeserializationError", list |-> <<>>]
    ELSE [out |-> "Ok",
          list |-> [i \in 1..Len(s) |-> [module |-> s[i].module, downloads |-> s[i].sum[1]]]]

(* ------------------------------- Release ------------------------------ *)
\* Release::create: INSERT ... RETURNING; downloads defaults to 0, published to now().
ReleaseCreate(rels, mods, seq, new_release) ==
  IF ~ModuleRowExists(mods, new_release.module_id)
    THEN [out |-> "ForeignKeyViolation", releases |-> rels, seq |-> seq]
  ELSE IF ReleaseKeyTaken(rels, new_release.module_id, new_release.version)
    THEN [out |-> "UniqueViolation", releases |-> rels, seq |-> seq]
  ELSE [out |-> "Ok",
        releases |-> rels \cup {[id |-> seq + 1,
                                 module_id |-> new_release.module_id,
                                 version |-> new_release.version,
                                 downloads |-> 0,
                                 code |-> new_release.code,
                                 published |-> seq + 1]},
        seq |-> seq + 1]

\* A variant that computes the new value in the caller, from the downloads of a
\* Release value read when the row was created (0), and writes it back.
ReleaseBumpDownloadsFromSelf(rels, id) ==
  {IF r.id = id THEN [r EXCEPT !.downloads = 0 + 1] ELSE r : r \in rels}

\* A variant without the filter on id.
ReleaseBumpDownloadsUnfiltered(rels, id) ==
  {[r EXCEPT !.downloads = @ + 1] : r \in rels}

\* Release::bump_downloads: SET downloads = downloads + 1 WHERE id = self.id.
ReleaseBumpDownloads(rels, id) ==
  {IF r.id = id THEN [r EXCEPT !.downloads = @ + 1] ELSE r : r \in rels}

\* Release::delete: DELETE WHERE id = id.
ReleaseDeleteRow(rels, id) == {r \in rels : r.id # id}

(* ------------------------------- actions ------------------------------ *)
Init ==
  /\ auth_tokens = {}
  /\ modules = {}
  /\ releases = {}
  /\ modules_id_seq = 0
  /\ releases_id_seq = 0
  /\ in_flight = EmptyBag
  /\ last = Returned("none", "Ok")
  /\ bump_calls = [id \in {} |-> 0]
  /\ search_input = None
  /\ search_output = [out |-> "none", list |-> <<>>]

\* bump_calls follows the release rows that exist.
BumpCallsOf(rels) ==
  [id \in {r.id : r \in rels} |-> IF id \in DOMAIN bump_calls THEN bump_calls[id] ELSE 0]

\* Module::update_or_create, first statement: find_opt(author, name).
UpdateOrCreateFind(key, description) ==
  /\ in_flight' = Enter(
        [pc |-> "update_or_create", author |-> key.author, name |-> key.name,
         description |-> description,
         found |-> LET f == ModuleFindOpt(modules, key.author, key.name)
                   IN  IF f = None THEN None ELSE Some(f[1].id)])
  /\ UNCHANGED << auth_tokens, modules, releases, modules_id_seq, releases_id_seq,
                  last, bump_calls, search_vars >>

\* Module::update_or_create, second statement: the UPDATE of the row found, or create.
UpdateOrCreateFinish(f) ==
  /\ f \in InFlight
  /\ f.pc = "update_or_create"
  /\ IF f.found # None
       THEN LET r == ModuleSetDescription(modules, f.found[1], f.description) IN
              /\ modules' = r.modules
              /\ modules_id_seq' = modules_id_seq
              /\ last' = Returned("update_or_create", r.out)
       ELSE LET r == ModuleCreate(modules, modules_id_seq,
                        [author |-> f.author, name |-> f.name,
                         description |-> f.description, latest |-> None]) IN
              /\ r.seq <= MaxModuleId
              /\ modules' = r.modules
              /\ modules_id_seq' = r.seq
              /\ last' = Returned("update_or_create", r.out)
  /\ in_flight' = Leave(f)
  /\ UNCHANGED << auth_tokens, releases, releases_id_seq, bump_calls, search_vars >>

\* A variant that drops the Result of Release::create and goes on to the UPDATE.
AddVersionAfterCreateUnchecked(out) == "add_version"

\* What add_version does with the Result of Release::create: `?` returns the error.
AddVersionAfterCreate(out) == IF out = "Ok" THEN "add_version" ELSE "return"

\* Module::add_version, first statement: Release::create under self.id.
AddVersionCreate(self_id, version, code) ==
  /\ LET r == ReleaseCreate(releases, modules, releases_id_seq,
                  [module_id |-> self_id, version |-> version, code |-> code]) IN
       /\ r.seq <= MaxReleaseId
       /\ releases' = r.releases
       /\ releases_id_seq' = r.seq
       /\ bump_calls' = BumpCallsOf(r.releases)
       /\ IF AddVersionAfterCreate(r.out) = "add_version"
            THEN /\ in_flight' = Enter([pc |-> "add_version", id |-> self_id,
                                        version |-> version])
                 /\ last' = last
            ELSE /\ in_flight' = in_flight
                 /\ last' = Returned("add_version", r.out)
  /\ UNCHANGED << auth_tokens, modules, modules_id_seq, search_vars >>

\* Module::add_version, second statement: the UPDATE of latest, then Ok(()).
AddVersionUpdate(f) ==
  /\ f \in InFlight
  /\ f.pc = "add_version"
  /\ modules' = ModuleSetLatest(modules, f.id, f.version)
  /\ in_flight' = Leave(f)
  /\ last' = Returned("add_version", "Ok")
  /\ UNCHANGED << auth_tokens, releases, modules_id_seq, releases_id_seq,
                  bump_calls, search_vars >>

\* Release::bump_downloads on a Release value whose id is self_id.
BumpDownloads(self_id) ==
  /\ \A r \in releases : r.id = self_id => r.downloads < MaxDownloads
  /\ releases' = ReleaseBumpDownloads(releases, self_id)
  /\ bump_calls' = IF self_id \in DOMAIN bump_calls
                     THEN [bump_calls EXCEPT ![self_id] = @ + 1]
                     ELSE bump_calls
  /\ last' = Returned("bump_downloads", "Ok")
  /\ UNCHANGED << auth_tokens, modules, modules_id_seq, releases_id_seq, in_flight,
                  search_vars >>

\* Release::delete(id).
ReleaseDelete(id) ==
  /\ releases' = ReleaseDeleteRow(releases, id)
  /\ bump_calls' = BumpCallsOf(releases')
  /\ last' = Returned("release_delete", "Ok")
  /\ UNCHANGED << auth_tokens, modules, modules_id_seq, releases_id_seq, in_flight,
                  search_vars >>

\* Module::delete(id).
ModuleDelete(id, on_delete) ==
  /\ LET r == ModuleDeleteRow(modules, releases, id, on_delete) IN
       /\ modules' = r.modules
       /\ releases' = r.releases
       /\ bump_calls' = BumpCallsOf(r.releases)
       /\ last' = Returned("module_delete", r.out)
  /\ UNCHANGED << auth_tokens, modules_id_seq, releases_id_seq, in_flight, search_vars >>

\* The second statement of a call in flight fails in the store or on the
\* connection: `?` (or map_err) returns the error, and the call's first statement
\* stays applied.  (A fault at a first statement changes nothing.)
StorageFault(f) ==
  /\ f \in InFlight
  /\ in_flight' = Leave(f)
  /\ last' = Returned(f.pc, "StorageError")
  /\ UNCHANGED << auth_tokens, modules, releases, modules_id_seq, releases_id_seq,
                  bump_calls, search_vars >>

\* Every function of Module and Release that writes, with at most MaxInFlight calls
\* between their two statements at a time.
Next ==
  \/ CallerFree(MaxInFlight) /\ \E key \in Keys, d \in Descriptions : UpdateOrCreateFind(key, d)
  \/ \E f \in InFlight : UpdateOrCreateFinish(f)
  \/ CallerFree(MaxInFlight) /\ \E id \in 1..modules_id_seq, v \in Versions, code \in Codes :
        AddVersionCreate(id, v, code)
  \/ \E f \in InFlight : AddVersionUpdate(f)
  \/ \E id \in 1..releases_id_seq : BumpDownloads(id)
  \/ \E id \in 1..releases_id_seq : ReleaseDelete(id)
  \/ \E id \in 1..modules_id_seq, on_delete \in OnDeleteModule : ModuleDelete(id, on_delete)
  \/ \E f \in InFlight : StorageFault(f)

Spec == Init /\ [][Next]_vars

\* Publishing only: up to MaxPublishers callers run update_or_create and add_version
\* at a time, and every statement succeeds.
NextPublish ==
  \/ CallerFree(MaxPublishers) /\ \E key \in Keys, d \in Descriptions : UpdateOrCreateFind(key, d)
  \/ \E f \in InFlight : UpdateOrCreateFinish(f)
  \/ CallerFree(MaxPublishers) /\ \E id \in 1..modules_id_seq, v \in Versions, code \in Codes :
        AddVersionCreate(id, v, code)
  \/ \E f \in InFlight : AddVersionUpdate(f)

SpecPublish == Init /\ [][NextPublish]_vars

(* -------------------------- AuthToken actions ------------------------- *)
\* AuthToken::create(auth_token).
AuthTokenCreate(auth_token) ==
  /\ LET r == AuthTokenInsert(auth_tokens, auth_token) IN
       /\ auth_tokens' = r.auth_tokens
       /\ last' = ReturnedValue("auth_token_create", r.out, None)
  /\ UNCHANGED << store_vars, search_vars >>

\* AuthToken::read(id).
AuthTokenRead(id) ==
  /\ LET r == AuthTokenReadResult(auth_tokens, id) IN
       last' = ReturnedValue("auth_token_read", r.out, r.value)
  /\ UNCHANGED << auth_tokens, store_vars, search_vars >>

\* AuthToken::read_opt(id).
AuthTokenReadOpt(id) ==
  /\ LET r == AuthTokenReadOptResult(auth_tokens, id) IN
       last' = ReturnedValue("auth_token_read_opt", r.out, r.value)
  /\ UNCHANGED << auth_tokens, store_vars, search_vars >>

\* AuthToken::delete(id): Ok(()) whatever the number of rows deleted.
AuthTokenDelete(id) ==
  /\ auth_tokens' = AuthTokenDeleteRows(auth_tokens, id)
  /\ last' = ReturnedValue("auth_token_delete", "Ok", None)
  /\ UNCHANGED << store_vars, search_vars >>

NextAuth ==
  \/ \E t \in AuthTokenValues : AuthTokenCreate(t)
  \/ \E id \in TokenIds : AuthTokenRead(id)
  \/ \E id \in TokenIds : AuthTokenReadOpt(id)
  \/ \E id \in TokenIds : AuthTokenDelete(id)

SpecAuth == Init /\ [][NextAuth]_vars

(* ---------------------------- Module::search -------------------------- *)
\* The releases table after the add_version calls listed in rs, in that order.
SearchReleases(rs) ==
  {[id |-> k,
    module_id |-> rs[k].module_id,
    version |-> VersionTable[1 + Cardinality({j \in 1..(k - 1) : rs[j].module_id = rs[k].module_id})],
    downloads |-> rs[k].downloads,
    code |-> "code",
    published |-> k] : k \in 1..Len(rs)}

\* The modules table: NumSearchModules modules with descriptions d, whose featured flags
\* are f, after those add_version calls.
SearchModules(d, f, rs) ==
  {[id |-> i,
    author |-> KeyTable[i].author,
    name |-> KeyTable[i].name,
    description |-> d[i],
    latest |-> LET mine == {r \in SearchReleases(rs) : r.module_id = i}
               IN  IF mine = {} THEN None
                   ELSE Some((CHOOSE r \in mine : \A o \in mine : o.id <= r.id).version),
    featured |-> f[i]] : i \in 1..NumSearchModules}

\* A store holding published modules, some featured, with downloaded releases.
InitSearch ==
  /\ auth_tokens = {}
  /\ \E d \in [1..NumSearchModules -> Descriptions], f \in [1..NumSearchModules -> BOOLEAN],
        n \in 0..MaxSearchReleases :
       \E rs \in [1..n -> [module_id : 1..NumSearchModules, downloads : 0..MaxSearchDownloads]] :
         /\ modules = SearchModules(d, f, rs)
         /\ releases = SearchReleases(rs)
         /\ releases_id_seq = n
         /\ bump_calls = [id \in 1..n |-> rs[id].downloads]
  /\ modules_id_seq = NumSearchModules
  /\ in_flight = EmptyBag
  /\ last = Returned("none", "Ok")
  /\ search_input = None
  /\ search_output = [out |-> "none", list |-> <<>>]

\* Module::search(query).
Search(query) ==
  /\ \E s \in SearchOrderings(SearchRows(modules, releases, query)) :
       search_output' = SearchLoad(s)
  /\ search_input' = Some(query)
  /\ UNCHANGED << auth_tokens, store_vars, last >>

NextSearch == \E query \in Queries : Search(query)

SpecSearch == InitSearch /\ [][NextSearch]_vars

(* ------------------------------- claims ------------------------------- *)
ReleasesOf(rels, module_id) == {r \in rels : r.module_id = module_id}

\* C1: add_version with a version the module already has a release of fails with a
\* unique-constraint error at the insert; the update of latest is not run, and
\* modules (so every latest) and releases are as before the call.
C1_DuplicateVersionFails ==
  [][\A id \in 1..MaxModuleId, v \in Versions, code \in Codes :
       (AddVersionCreate(id, v, code) /\ ReleaseKeyTaken(releases, id, v))
         => /\ last' = Returned("add_version", "UniqueViolation")
            /\ in_flight' = in_flight
            /\ modules' = modules
            /\ releases' = releases]_vars

\* A duplicate add_version has returned its error on a module whose latest is set.
C1_Witness ==
  /\ last = Returned("add_version", "UniqueViolation")
  /\ \E m \in modules : m.latest # None /\ ReleaseKeyTaken(releases, m.id, m.latest[1])

\* C2: add_version is atomic: when a call whose insert succeeded returns, with Ok or
\* with an error, either the release is there and latest is its version, or the
\* release is not there and the module is as it was.
C2_AddVersionAtomic ==
  [][\A f \in InFlight :
       (f.pc = "add_version" /\ in_flight' = Leave(f))
         => \/ /\ ReleaseKeyTaken(releases', f.id, f.version)
               /\ \E m \in modules' : m.id = f.id /\ m.latest = Some(f.version)
            \/ /\ ~ReleaseKeyTaken(releases', f.id, f.version)
               /\ modules' = modules]_vars

\* C3: every module whose latest is set has a release of its own with that version.
C3_LatestReferencesRelease ==
  \A m \in modules : m.latest # None => ReleaseKeyTaken(releases, m.id, m.latest[1])

\* C4: the stored downloads of every release equals the number of bump_downloads
\* calls made on it since it was created with 0, whatever ran in between.
C4_NoLostBumps ==
  \A r \in releases : r.downloads = bump_calls[r.id]

\* Two bump_downloads calls on one release have returned and it stores 2.
C4_Witness ==
  /\ last = Returned("bump_downloads", "Ok")
  /\ \E r \in releases : bump_calls[r.id] = 2 /\ r.downloads = 2

\* C5: once no add_version is in flight, the latest of a module with releases is the
\* version of the release of it inserted most recently.
C5_LatestIsMostRecentRelease ==
  in_flight = EmptyBag
    => \A m \in modules : \A r \in ReleasesOf(releases, m.id) :
         (\A o \in ReleasesOf(releases, m.id) : o.published <= r.published)
           => m.latest = Some(r.version)

\* C6: update_or_create that found no row and still finds the key free creates the
\* row with the description given and latest absent; one that found a row that is
\* still there leaves one row for the pair, with the same id, latest and featured,
\* and the description given.
C6_UpdateOrCreate ==
  [][\A f \in InFlight :
       UpdateOrCreateFinish(f) =>
         /\ (f.found = None /\ ~ModuleKeyTaken(modules, f.author, f.name))
              => /\ last' = Returned("update_or_create", "Ok")
                 /\ modules' = modules \cup
                      {[id |-> modules_id_seq', author |-> f.author, name |-> f.name,
                        description |-> f.description, latest |-> None, featured |-> FALSE]}
                 /\ ~ModuleRowExists(modules, modules_id_seq')
         /\ (f.found # None /\ ModuleRowExists(modules, f.found[1]))
              => LET old == CHOOSE m \in modules : m.id = f.found[1] IN
                 /\ last' = Returned("update_or_create", "Ok")
                 /\ old.author = f.author /\ old.name = f.name
                 /\ modules' = (modules \ {old}) \cup {[old EXCEPT !.description = f.description]}
                 /\ Cardinality({m \in modules' : m.author = f.author /\ m.name = f.name}) = 1]_vars

\* update_or_create has returned Ok on a module that already had a latest, and the
\* row holds the second description.
C6_Witness ==
  /\ last = Returned("update_or_create", "Ok")
  /\ \E m \in modules : m.latest # None /\ m.description = DescriptionTable[2]

\* C10: a release is created with downloads 0; while it exists its version and code
\* stay as they are, and its downloads changes only in a bump_downloads on it, by +1.
C10_DownloadsOnlyBumped ==
  [][/\ \A n \in releases' : (\A r \in releases : r.id # n.id) => n.downloads = 0
     /\ \A r \in releases, n \in releases' :
          r.id = n.id =>
            /\ n.version = r.version /\ n.code = r.code /\ n.module_id = r.module_id
            /\ \/ n.downloads = r.downloads
               \/ n.downloads = r.downloads + 1 /\ BumpDownloads(r.id)]_vars

\* A release that was bumped is still there, unchanged, after an update_or_create.
C10_Witness ==
  /\ last = Returned("update_or_create", "Ok")
  /\ \E r \in releases : r.downloads = 1

\* C9: create of a free id stores the record, and read then returns that record;
\* create of an id that is there fails and changes nothing; after delete, read is
\* NotFound and read_opt is Ok(None); delete of an id that is not there is Ok and
\* changes nothing.
C9_AuthTokenStore ==
  [][/\ \A t \in AuthTokenValues :
          AuthTokenCreate(t) =>
            IF \E o \in auth_tokens : o.id = t.id
              THEN last'.out = "UniqueViolation" /\ auth_tokens' = auth_tokens
              ELSE /\ last'.out = "Ok"
                   /\ AuthTokenReadResult(auth_tokens', t.id) = [out |-> "Ok", value |-> Some(t)]
     /\ \A id \in TokenIds :
          AuthTokenDelete(id) =>
            /\ last'.out = "Ok"
            /\ AuthTokenReadResult(auth_tokens', id).out = "NotFound"
            /\ AuthTokenReadOptResult(auth_tokens', id) = [out |-> "Ok", value |-> None]
            /\ \A o \in auth_tokens : o.id # id => o \in auth_tokens'
            /\ auth_tokens' \subseteq auth_tokens]_vars

\* A create of an id that is taken has failed.
C9_Witness ==
  /\ last = ReturnedValue("auth_token_create", "UniqueViolation", None)
  /\ auth_tokens # {}

\* The modules that match the query.
Matching(query) == {m \in modules : TsMatches(PlainToTsQuery(query), SearchVector(m))}

\* C7: search succeeds and returns every matching module once, with the sum of the
\* downloads of its releases, which is 0 for a module without releases.
C7_SearchReturnsEveryMatch ==
  search_input # None =>
    /\ search_output.out = "Ok"
    /\ Len(search_output.list) = Cardinality(Matching(search_input[1]))
    /\ {search_output.list[i] : i \in 1..Len(search_output.list)}
         = {[module |-> m, downloads |-> SumDownloads(ReleasesOf(releases, m.id))] :
              m \in Matching(search_input[1])}

\* C8: in a list search returns, a featured module never follows a non-featured
\* one, within a tier the sums of downloads never increase, every sum is that of
\* the module's releases, and every module matches the query.
C8_SearchRanking ==
  (search_input # None /\ search_output.out = "Ok") =>
    LET l == search_output.list IN
    /\ \A i, j \in 1..Len(l) :
         i < j => /\ l[i].module.featured \/ ~l[j].module.featured
                  /\ l[i].module.featured = l[j].module.featured
                       => l[i].downloads >= l[j].downloads
    /\ \A i \in 1..Len(l) :
         /\ l[i].module \in Matching(search_input[1])
         /\ l[i].downloads = SumDownloads(ReleasesOf(releases, l[i].module.id))

\* search returned a featured module ahead of a non-featured one with more downloads.
C8_Witness ==
  /\ search_output.out = "Ok"
  /\ Len(search_output.list) = 2
  /\ search_output.list[1].module.featured
  /\ ~search_output.list[2].module.featured
  /\ search_output.list[1].downloads < search_output.list[2].downloads
====
